---------------------------- MODULE Spec2Model ----------------------------
(***************************************************************************)
(* A model of Lab4/qr.py: the finder-pattern corner detector               *)
(* (getCornerPoints and the functions it calls) and the decode glue.       *)
(*                                                                         *)
(* Every function of the file has a call frame, held in one variable (a    *)
(* record: the function's arguments, its locals and the position `pc` in   *)
(* its body).  A frame that is not in use is Idle.  Each function has a    *)
(* specification of its own (SpecCR, SpecGC, ...) whose Init draws the     *)
(* arguments from bounded sets and whose actions are the steps of the      *)
(* body.  Callers run a callee to completion through the same step         *)
(* operators (RunScan, RunVerify, RunSupp).                                  *)
(*                                                                         *)
(* Conventions.  A binarized image is a sequence of rows, each a sequence  *)
(* of BOOLEAN; TRUE is white, FALSE is black (qr.py:93).  Coordinates      *)
(* are the code's, counted from 0; Pixel adds the 1 that TLA+ sequences    *)
(* need.  The code's float comparisons are between an integer and a       *)
(* multiple of 1/7 (or an integer and rows/5): they are modelled exactly   *)
(* by clearing the denominator, e.g. abs(c1 - S/7.0) < 2.0 is              *)
(* Abs(7*c1 - S) < 14.  The two sides differ by 0 or by at least 1/7 (1/5),*)
(* and S/7.0 is exact when S is a multiple of 7, so float rounding cannot  *)
(* change an outcome.                                                      *)
(***************************************************************************)
EXTENDS Integers, Sequences, FiniteSets, TLC

VARIABLES
    ratio,    \* frame of checkRatio
    scan,     \* frame of getCandidates
    verify,   \* frame of verifyCenter and the verifyDirection call it runs
    supp,     \* frame of neighborSuppression
    align,    \* frame of getAlignmentPoint
    corner,   \* frame of getCornerPoints
    dec       \* frame of decode

vars == <<ratio, scan, verify, supp, align, corner, dec>>

Idle == [pc |-> "idle"]

(***************************************************************************)
(* Bounds of the model.                                                    *)
(***************************************************************************)
MaxRun == 9          \* run lengths handed to checkRatio are in 0..MaxRun
MaxPixels == 14      \* an image given to getCandidates has at most this many pixels
MaxScanRows == 2     \* and at most this many rows
MaxWalkPixels == 9   \* an image given to verifyCenter has at most this many pixels
MaxImagePixels == 8  \* an image given to getCornerPoints has at most this many
MaxCoord == 1        \* rows and columns of the points given to neighborSuppression
MaxCenters == 3      \* length of the list given to neighborSuppression
MaxThreshNum == 11   \* neighborSuppression's thresh is n/5 for an n in 1..MaxThreshNum
MaxAlignLen == 4     \* length of the list given to getAlignmentPoint

(***************************************************************************)
(* Arithmetic helpers.                                                     *)
(***************************************************************************)
Abs(x) == IF x < 0 THEN -x ELSE x

Shapes(n) == {s \in (1..n) \X (1..n) : s[1] * s[2] <= n}

Images(n) == UNION {[1..s[1] -> [1..s[2] -> BOOLEAN]] : s \in Shapes(n)}

Pixel(image, i, j) == image[i + 1][j + 1]     \* image[i,j]

NumRows(image) == Len(image)                  \* rows, cols = image.shape

NumCols(image) == Len(image[1])

(***************************************************************************)
(* checkRatio(c1,c2,c3,c4,c5, thresh = 2.0)            qr.py:58-76         *)
(* total = S/7.0 with S = c1+...+c5.  `thresh` is a whole number in every  *)
(* call of the file (the default, 2.0).                                    *)
(***************************************************************************)
checkRatioLeftEdgeOff(c1, c2, c3, c4, c5, thresh) ==
    LET S == c1 + c2 + c3 + c4 + c5
    IN  IF S <= 7
        THEN FALSE
        ELSE /\ Abs(7 * c1 - S) < 7 * thresh
             /\ Abs(7 * c2 - S) < 7 * thresh
             /\ Abs(7 * c3 - 3 * S) < 7 * thresh
             /\ Abs(7 * c4 - S) < 7 * thresh
             /\ Abs(7 * c5 - S) < 7 * thresh

checkRatio(c1, c2, c3, c4, c5, thresh) ==
    LET S == c1 + c2 + c3 + c4 + c5
    IN  IF S < 7                                   \* total < 1.0
        THEN FALSE
        ELSE /\ Abs(7 * c1 - S) < 7 * thresh       \* abs(c1 - total) < thresh
             /\ Abs(7 * c2 - S) < 7 * thresh
             /\ Abs(7 * c3 - 3 * S) < 7 * thresh   \* abs(c3 - 3*total) < thresh
             /\ Abs(7 * c4 - S) < 7 * thresh
             /\ Abs(7 * c5 - S) < 7 * thresh

DefaultRatioThresh == 2

InitCR ==
    /\ ratio \in [pc : {"call"}, c1 : 0..MaxRun, c2 : 0..MaxRun, c3 : 0..MaxRun,
                  c4 : 0..MaxRun, c5 : 0..MaxRun, ret : {FALSE}]
    /\ scan = Idle /\ verify = Idle /\ supp = Idle
    /\ align = Idle /\ corner = Idle /\ dec = Idle

CallCheckRatio ==
    /\ ratio.pc = "call"
    /\ ratio' = [ratio EXCEPT
                   !.pc = "done",
                   !.ret = checkRatio(ratio.c1, ratio.c2, ratio.c3, ratio.c4,
                                      ratio.c5, DefaultRatioThresh)]
    /\ UNCHANGED <<scan, verify, supp, align, corner, dec>>

NextCR == CallCheckRatio

SpecCR == InitCR /\ [][NextCR]_vars

\* C4: with the default threshold, checkRatio(k, k, 3k, k, k) is true for
\* every k >= 1, and checkRatio is false whenever |c3 - 3*mean| >= 2.0 with
\* mean = (c1+c2+c3+c4+c5)/7.
C4_CheckRatio ==
    ratio.pc = "done" =>
        LET S == ratio.c1 + ratio.c2 + ratio.c3 + ratio.c4 + ratio.c5
        IN  /\ (\E k \in 1..MaxRun :
                   /\ ratio.c1 = k /\ ratio.c2 = k /\ ratio.c3 = 3 * k
                   /\ ratio.c4 = k /\ ratio.c5 = k) => ratio.ret = TRUE
            /\ (Abs(7 * ratio.c3 - 3 * S) >= 14) => ratio.ret = FALSE

C4_Witness ==
    /\ ratio.pc = "done"
    /\ ratio.c1 = 3 /\ ratio.c2 = 3 /\ ratio.c3 = 9 /\ ratio.c4 = 3 /\ ratio.c5 = 3
    /\ ratio.ret = TRUE

(***************************************************************************)
(* decode(arr)                                          qr.py:227-259      *)
(* The frame keeps what the claims are about: the shape and dtype of arr,  *)
(* whether tmp.png exists on disk, whether the request was sent, what was  *)
(* printed, and how the call ended (ret, or the exception that escaped).   *)
(* The outcomes of the calls into matplotlib, requests and the response    *)
(* parser are the environment's choice.                                    *)
(***************************************************************************)
MaxGridDim == 41

TooLargeOrEqual(rows, cols) == rows >= MaxGridDim \/ cols >= MaxGridDim

TooLarge(rows, cols) == rows > MaxGridDim \/ cols > MaxGridDim    \* qr.py:242

InitDecode ==
    /\ dec \in [pc : {"size"}, rows : 1..(MaxGridDim + 1), cols : 1..(MaxGridDim + 1),
                isBool : BOOLEAN, tmpExists : {FALSE}, tmpCreated : {FALSE},
                posted : {FALSE}, printed : {"nothing"}, ret : {"unset"},
                raised : {"nothing"}]
    /\ ratio = Idle /\ scan = Idle /\ verify = Idle /\ supp = Idle
    /\ align = Idle /\ corner = Idle

\* qr.py:241-244
DecodeSizeCheck ==
    /\ dec.pc = "size"
    /\ dec' = IF TooLarge(dec.rows, dec.cols)
              THEN [dec EXCEPT !.pc = "done", !.printed = "too large", !.ret = "None"]
              ELSE [dec EXCEPT !.pc = "dtype"]
    /\ UNCHANGED <<ratio, scan, verify, supp, align, corner>>

\* qr.py:246-248
DecodeTypeCheck ==
    /\ dec.pc = "dtype"
    /\ dec' = IF ~dec.isBool
              THEN [dec EXCEPT !.pc = "done", !.printed = "not boolean", !.ret = "None"]
              ELSE [dec EXCEPT !.pc = "imsave"]
    /\ UNCHANGED <<ratio, scan, verify, supp, align, corner>>

\* qr.py:252  plt.imsave('tmp.png', arr): writes the file, or raises
DecodeImsave ==
    /\ dec.pc = "imsave"
    /\ \/ dec' = [dec EXCEPT !.pc = "post", !.tmpExists = TRUE, !.tmpCreated = TRUE]
       \/ dec' = [dec EXCEPT !.pc = "done", !.raised = "imsave"]
    /\ UNCHANGED <<ratio, scan, verify, supp, align, corner>>

\* qr.py:253-254  with open(...) as f: response = requests.post(...)
\* The request is sent; it answers, or raises (the with block closes f and
\* the exception leaves decode: line 255 is not reached).
DecodePost ==
    /\ dec.pc = "post"
    /\ \/ dec' = [dec EXCEPT !.pc = "remove", !.posted = TRUE]
       \/ dec' = [dec EXCEPT !.pc = "done", !.posted = TRUE, !.raised = "post"]
    /\ UNCHANGED <<ratio, scan, verify, supp, align, corner>>

\* qr.py:255  os.remove("tmp.png")
DecodeRemove ==
    /\ dec.pc = "remove"
    /\ dec' = [dec EXCEPT !.pc = "parse", !.tmpExists = FALSE]
    /\ UNCHANGED <<ratio, scan, verify, supp, align, corner>>

\* qr.py:256-259  the table is parsed; obj['Parsed Result'] is returned, or
\* the lookup raises KeyError when the response has no such row
DecodeParse ==
    /\ dec.pc = "parse"
    /\ \/ dec' = [dec EXCEPT !.pc = "done", !.ret = "text"]
       \/ dec' = [dec EXCEPT !.pc = "done", !.raised = "KeyError"]
    /\ UNCHANGED <<ratio, scan, verify, supp, align, corner>>

NextDecode ==
    \/ DecodeSizeCheck
    \/ DecodeTypeCheck
    \/ DecodeImsave
    \/ DecodePost
    \/ DecodeRemove
    \/ DecodeParse

SpecDecode == InitDecode /\ [][NextDecode]_vars

\* C6: a grid with more than 41 rows or more than 41 columns makes decode
\* return None without raising, with tmp.png never written and no request
\* sent; a 41x41 grid passes the size check.
C6_TooLarge ==
    /\ (dec.pc # "idle" /\ (dec.rows > 41 \/ dec.cols > 41)) =>
          /\ dec.pc \in {"size", "done"}
          /\ ~dec.tmpCreated /\ ~dec.tmpExists /\ ~dec.posted
          /\ dec.raised = "nothing"
          /\ dec.pc = "done" => (dec.ret = "None" /\ dec.printed = "too large")
    /\ (dec.pc \notin {"idle", "size"} /\ dec.rows = 41 /\ dec.cols = 41) =>
          /\ dec.printed # "too large"
          /\ dec.pc = "done" /\ dec.ret = "None" => ~dec.isBool

C6_Witness ==
    /\ dec.pc = "done" /\ dec.rows = 42 /\ dec.cols = 3 /\ dec.isBool
    /\ dec.ret = "None"

\* C7: no exit of decode leaves tmp.png behind: whenever the file was
\* created, it is gone when decode has finished, however it finished.
C7_TmpRemoved ==
    (dec.pc = "done" /\ dec.tmpCreated) => ~dec.tmpExists


(***************************************************************************)
(* getCandidates(image)                                 qr.py:78-134       *)
(* pc: "row" is the head of `for i`, "col" the head of `for j`, "edge" the *)
(* right edge check of line 130.  The frame's j is the number of columns   *)
(* of row i already read: at the head of `for j` it is the next column,    *)
(* and at "edge" it is the code's j+1.                                     *)
(* `checks` is a history variable: one entry for every evaluation of       *)
(* checkRatio (the row, the end position handed to the column formula,     *)
(* the five arguments, the column the formula gives).                      *)
(***************************************************************************)
CandidateColNoWhite(e, c3, c4, c5) == e - c5 - (c3 \div 2)

\* j-counter5-counter4-counter3//2 (line 107), j+1-... (line 131)
CandidateCol(e, c3, c4, c5) == e - c5 - c4 - (c3 \div 2)

\* lines 106-108 and 130-132: the check, and the two candidates it emits
ScanCheck(f, where) ==
    LET col == CandidateCol(f.j, f.counter3, f.counter4, f.counter5)
        hit == checkRatio(f.counter1, f.counter2, f.counter3, f.counter4,
                          f.counter5, DefaultRatioThresh)
    IN  [f EXCEPT
           !.candidates = IF hit
                          THEN f.candidates \o <<(<<f.i, col>>), (<<f.i, col + 1>>)>>
                          ELSE f.candidates,
           !.checks = Append(f.checks,
                             [row |-> f.i, end |-> f.j, where |-> where,
                              args |-> <<f.counter1, f.counter2, f.counter3,
                                         f.counter4, f.counter5>>,
                              col |-> col, hit |-> hit])]

\* lines 83-94: the next row starts with its counters at 0 and prev = white
ScanRowStart(f) ==
    IF f.i < NumRows(f.image)
    THEN [f EXCEPT !.pc = "col", !.j = 0, !.prev = TRUE,
                   !.counter1 = 0, !.counter2 = 0, !.counter3 = 0,
                   !.counter4 = 0, !.counter5 = 0]
    ELSE [f EXCEPT !.pc = "done"]

\* lines 99-113: a white pixel at column j
ScanWhite(f) ==
    IF f.prev
    THEN [f EXCEPT !.counter4 = f.counter4 + 1, !.j = f.j + 1]
    ELSE LET g == ScanCheck(f, "transition")
         IN  [g EXCEPT !.counter2 = f.counter4, !.counter4 = 1,
                       !.prev = TRUE, !.j = f.j + 1]

\* lines 116-127: a black pixel at column j
ScanBlack(f) ==
    IF f.prev
    THEN [f EXCEPT !.counter1 = f.counter3, !.counter3 = f.counter5,
                   !.counter5 = 1, !.prev = FALSE, !.j = f.j + 1]
    ELSE [f EXCEPT !.counter5 = f.counter5 + 1, !.j = f.j + 1]

\* line 96: the head of `for j`
ScanColumn(f) ==
    IF f.j < NumCols(f.image)
    THEN IF Pixel(f.image, f.i, f.j) THEN ScanWhite(f) ELSE ScanBlack(f)
    ELSE [f EXCEPT !.pc = "edge"]

\* lines 129-132, then the next i
ScanRightEdge(f) ==
    [ScanCheck(f, "edge") EXCEPT !.pc = "row", !.i = f.i + 1]

ScanFrame(image) ==
    [pc |-> "row", image |-> image, i |-> 0, j |-> 0, prev |-> TRUE,
     counter1 |-> 0, counter2 |-> 0, counter3 |-> 0, counter4 |-> 0,
     counter5 |-> 0, candidates |-> <<>>, checks |-> <<>>]

ScanNext(f) ==
    CASE f.pc = "row" -> ScanRowStart(f)
      [] f.pc = "col" -> ScanColumn(f)
      [] f.pc = "edge" -> ScanRightEdge(f)

RECURSIVE RunScan(_)
RunScan(f) == IF f.pc = "done" THEN f ELSE RunScan(ScanNext(f))

getCandidates(image) == RunScan(ScanFrame(image)).candidates

ScanImages ==
    UNION {[1..s[1] -> [1..s[2] -> BOOLEAN]] :
              s \in {t \in Shapes(MaxPixels) : t[1] <= MaxScanRows}}

InitGC ==
    /\ \E image \in ScanImages : scan = ScanFrame(image)
    /\ ratio = Idle /\ verify = Idle /\ supp = Idle
    /\ align = Idle /\ corner = Idle /\ dec = Idle

GCRowStart ==
    /\ scan.pc = "row"
    /\ scan' = ScanRowStart(scan)
    /\ UNCHANGED <<ratio, verify, supp, align, corner, dec>>

GCWhitePixel ==
    /\ scan.pc = "col" /\ scan.j < NumCols(scan.image)
    /\ Pixel(scan.image, scan.i, scan.j)
    /\ scan' = ScanColumn(scan)
    /\ UNCHANGED <<ratio, verify, supp, align, corner, dec>>

GCBlackPixel ==
    /\ scan.pc = "col" /\ scan.j < NumCols(scan.image)
    /\ ~Pixel(scan.image, scan.i, scan.j)
    /\ scan' = ScanColumn(scan)
    /\ UNCHANGED <<ratio, verify, supp, align, corner, dec>>

GCRowEnd ==
    /\ scan.pc = "col" /\ scan.j = NumCols(scan.image)
    /\ scan' = ScanColumn(scan)
    /\ UNCHANGED <<ratio, verify, supp, align, corner, dec>>

GCRightEdge ==
    /\ scan.pc = "edge"
    /\ scan' = ScanRightEdge(scan)
    /\ UNCHANGED <<ratio, verify, supp, align, corner, dec>>

NextGC ==
    \/ GCRowStart
    \/ GCWhitePixel
    \/ GCBlackPixel
    \/ GCRowEnd
    \/ GCRightEdge

SpecGC == InitGC /\ [][NextGC]_vars

\* The finder cross-section of width unit k starting at column s of `row`
\* (columns counted from 0): k black, k white, 3k black, k white, k black,
\* with a white pixel or the row start on its left and a white pixel or the
\* row end on its right.
PatternAt(row, s, k) ==
    /\ s + 7 * k <= Len(row)
    /\ \A c \in s..(s + 7 * k - 1) :
          row[c + 1] = (c - s \in (k..(2 * k - 1)) \cup ((5 * k)..(6 * k - 1)))
    /\ s = 0 \/ row[s]
    /\ s + 7 * k = Len(row) \/ row[s + 7 * k + 1]

\* C3: when getCandidates has returned, every row holding a k, k, 3k, k, k
\* cross-section (delimited as in PatternAt) has a candidate whose column is
\* inside the 3k middle run and within 1 column of its midpoint.
C3_PatternFound ==
    scan.pc = "done" =>
        \A i \in 0..(NumRows(scan.image) - 1) :
        \A k \in 1..MaxPixels :
        \A s \in 0..(NumCols(scan.image) - 1) :
            PatternAt(scan.image[i + 1], s, k) =>
                \E n \in 1..Len(scan.candidates) :
                    LET cand == scan.candidates[n]
                    IN  /\ cand[1] = i
                        /\ s + 2 * k <= cand[2] /\ cand[2] <= s + 5 * k - 1
                        /\ Abs(2 * cand[2] - (2 * s + 7 * k - 1)) <= 2

\* a 1 x 14 row that is the cross-section with k = 2, and the scan has
\* emitted column 7 of its middle run (columns 4 to 9)
C3_Witness ==
    /\ scan.pc = "done"
    /\ NumRows(scan.image) = 1 /\ NumCols(scan.image) = 14
    /\ PatternAt(scan.image[1], 0, 2)
    /\ \E n \in 1..Len(scan.candidates) : scan.candidates[n] = <<0, 7>>

\* The length of the run of `color` that ends at position e of `row` (the
\* first e pixels), 0 when there is none.
RECURSIVE RunBack(_, _, _)
RunBack(row, e, color) ==
    IF e = 0 \/ row[e] # color THEN 0 ELSE 1 + RunBack(row, e - 1, color)

\* The last five runs black, white, black, white, black of the first e
\* pixels of `row`, left to right, and the position just after the last.
LastWindow(row, e) ==
    LET e5 == e - RunBack(row, e, TRUE)
        b3 == RunBack(row, e5, FALSE)
        w2 == RunBack(row, e5 - b3, TRUE)
        b2 == RunBack(row, e5 - b3 - w2, FALSE)
        w1 == RunBack(row, e5 - b3 - w2 - b2, TRUE)
        b1 == RunBack(row, e5 - b3 - w2 - b2 - w1, FALSE)
    IN  [args |-> <<b1, w1, b2, w2, b3>>, end |-> e5]

\* The same with the window laid so that its fourth run is the white run the
\* row read so far ends on (its fifth, black, run does not exist).
LastWindowOnWhite(row, e) ==
    LET w2 == RunBack(row, e, TRUE)
        b2 == RunBack(row, e - w2, FALSE)
        w1 == RunBack(row, e - w2 - b2, TRUE)
        b1 == RunBack(row, e - w2 - b2 - w1, FALSE)
    IN  [args |-> <<b1, w1, b2, w2, 0>>, end |-> e]

CheckMatches(chk, w) ==
    /\ chk.args = w.args
    /\ chk.col = w.end - w.args[5] - w.args[4] - (w.args[3] \div 2)

CheckIsLastWindow(image, chk) ==
    \/ CheckMatches(chk, LastWindow(image[chk.row + 1], chk.end))
    \/ CheckMatches(chk, LastWindowOnWhite(image[chk.row + 1], chk.end))

\* C9: at every evaluation of checkRatio in getCandidates, at a black-to-white
\* transition and at the right edge check alike, the five arguments are the
\* lengths of the last five runs black, white, black, white, black of the row
\* read so far, and the emitted column is the end of that window minus c5,
\* minus c4, minus floor(c3/2).  (When the row read so far ends on white the
\* window may be laid either way: ending on the last black run, or with the
\* trailing white run as its fourth run.)
C9_Window ==
    scan.pc # "idle" =>
        \A n \in 1..Len(scan.checks) : CheckIsLastWindow(scan.image, scan.checks[n])


(***************************************************************************)
(* verifyRatio(c1,c2,c3, thresh = 1.0)                  qr.py:136-143      *)
(* total = S/3.5 = 2S/7 with S = c1+c2+c3.                                 *)
(***************************************************************************)
DefaultVerifyThresh == 1

verifyRatio(c1, c2, c3, thresh) ==
    LET S == c1 + c2 + c3
    IN  /\ Abs(7 * c1 - 3 * S) < 7 * thresh     \* abs(c1 - 1.5*total) < thresh
        /\ Abs(7 * c2 - 2 * S) < 7 * thresh     \* abs(c2 - total) < thresh
        /\ Abs(7 * c3 - 2 * S) < 7 * thresh     \* abs(c3 - total) < thresh

(***************************************************************************)
(* verifyDirection(image, loc, dx, dy)                  qr.py:145-180      *)
(* verifyCenter(image, loc)                             qr.py:183-188      *)
(* One frame holds verifyCenter and the verifyDirection call in progress:  *)
(* `ray` is the index of the call (1 up, 2 down, 3 diagonal), `results`    *)
(* the values returned so far.  pc: "loop" is the head of the while loop,  *)
(* "ret" the moment verifyDirection returns.  `steps` and `hist` are       *)
(* history variables: the number of completed iterations and the value of  *)
(* prev after each.                                                        *)
(***************************************************************************)
Rays == << <<0, -1>>, <<0, 1>>, <<1, 1>> >>     \* (dx, dy), lines 184-186

InImage(image, i, j) ==
    i >= 0 /\ i < NumRows(image) /\ j >= 0 /\ j < NumCols(image)

\* lines 147-152
WalkCall(f, k) ==
    [f EXCEPT !.pc = "loop", !.ray = k, !.i = f.loc[1], !.j = f.loc[2],
              !.prev = 0, !.counter1 = 0, !.counter2 = 0, !.counter3 = 0,
              !.steps = 0, !.hist = <<>>]

\* lines 176-177
WalkAdvance(f) ==
    [f EXCEPT !.i = f.i + Rays[f.ray][2], !.j = f.j + Rays[f.ray][1],
              !.steps = f.steps + 1, !.hist = Append(f.hist, f.prev)]

WalkReturn(f) ==
    [f EXCEPT !.pc = "ret",
              !.ret = verifyRatio(f.counter1, f.counter2, f.counter3,
                                  DefaultVerifyThresh)]

\* lines 156-164
WalkWhite(f) ==
    IF f.prev < 2
    THEN WalkAdvance([f EXCEPT !.counter2 = f.counter2 + 1, !.prev = 1])
    ELSE WalkReturn(f)

WalkBlackStaysInRun1(f) ==
    IF f.prev < 2
    THEN WalkAdvance([f EXCEPT !.counter1 = f.counter1 + 1])
    ELSE WalkAdvance([f EXCEPT !.counter3 = f.counter3 + 1, !.prev = 2])

\* lines 167-174
WalkBlack(f) ==
    IF f.prev = 0
    THEN WalkAdvance([f EXCEPT !.counter1 = f.counter1 + 1])
    ELSE WalkAdvance([f EXCEPT !.counter3 = f.counter3 + 1, !.prev = 2])

\* line 153 and the edge check of line 180
WalkLoop(f) ==
    IF InImage(f.image, f.i, f.j)
    THEN IF Pixel(f.image, f.i, f.j) THEN WalkWhite(f) ELSE WalkBlack(f)
    ELSE WalkReturn(f)

\* lines 184-188: the three calls are made one after the other, whatever
\* they return; the result is their conjunction
CenterNext(f) ==
    LET r == Append(f.results, f.ret)
    IN  IF f.ray < Len(Rays)
        THEN [WalkCall(f, f.ray + 1) EXCEPT !.results = r]
        ELSE [f EXCEPT !.pc = "done", !.results = r,
                       !.ret = r[1] /\ r[2] /\ r[3]]

VerifyFrame(image, loc) ==
    WalkCall([pc |-> "loop", image |-> image, loc |-> loc, ray |-> 1,
              i |-> 0, j |-> 0, prev |-> 0, counter1 |-> 0, counter2 |-> 0,
              counter3 |-> 0, steps |-> 0, hist |-> <<>>, ret |-> FALSE,
              results |-> <<>>], 1)

VerifyNext(f) ==
    CASE f.pc = "loop" -> WalkLoop(f)
      [] f.pc = "ret" -> CenterNext(f)

RECURSIVE RunVerify(_)
RunVerify(f) == IF f.pc = "done" THEN f ELSE RunVerify(VerifyNext(f))

verifyCenter(image, loc) == RunVerify(VerifyFrame(image, loc)).ret

InitVD ==
    /\ \E image \in Images(MaxWalkPixels) :
       \E i \in 0..(NumRows(image) - 1), j \in 0..(NumCols(image) - 1) :
           verify = VerifyFrame(image, <<i, j>>)
    /\ ratio = Idle /\ scan = Idle /\ supp = Idle
    /\ align = Idle /\ corner = Idle /\ dec = Idle

VDWhitePixel ==
    /\ verify.pc = "loop" /\ InImage(verify.image, verify.i, verify.j)
    /\ Pixel(verify.image, verify.i, verify.j)
    /\ verify' = WalkLoop(verify)
    /\ UNCHANGED <<ratio, scan, supp, align, corner, dec>>

VDBlackPixel ==
    /\ verify.pc = "loop" /\ InImage(verify.image, verify.i, verify.j)
    /\ ~Pixel(verify.image, verify.i, verify.j)
    /\ verify' = WalkLoop(verify)
    /\ UNCHANGED <<ratio, scan, supp, align, corner, dec>>

VDLeaveImage ==
    /\ verify.pc = "loop" /\ ~InImage(verify.image, verify.i, verify.j)
    /\ verify' = WalkLoop(verify)
    /\ UNCHANGED <<ratio, scan, supp, align, corner, dec>>

VCNextRay ==
    /\ verify.pc = "ret"
    /\ verify' = CenterNext(verify)
    /\ UNCHANGED <<ratio, scan, supp, align, corner, dec>>

NextVD ==
    \/ VDWhitePixel
    \/ VDBlackPixel
    \/ VDLeaveImage
    \/ VCNextRay

SpecVD == InitVD /\ [][NextVD]_vars

\* The pixels met from loc along the ray (dx, dy), up to the image border.
RECURSIVE RayPixels(_, _, _, _, _)
RayPixels(image, i, j, dx, dy) ==
    IF InImage(image, i, j)
    THEN <<Pixel(image, i, j)>> \o RayPixels(image, i + dy, j + dx, dx, dy)
    ELSE <<>>

\* The length of the run of `color` that starts at position n of `s`.
RECURSIVE RunFwd(_, _, _)
RunFwd(s, n, color) ==
    IF n > Len(s) \/ s[n] # color THEN 0 ELSE 1 + RunFwd(s, n + 1, color)

NonDecreasing(s) == \A n \in 1..(Len(s) - 1) : s[n] <= s[n + 1]

\* C10: on each of the three rays of verifyCenter, from an in-bounds start
\* pixel: the walk takes at most as many iterations as the ray has pixels and
\* can always take its next step (so it terminates); prev only goes
\* 0 -> 1 -> 2; the walk returns at the first white pixel after the second
\* black run, or on leaving the image; and it returns with counter1,
\* counter2, counter3 the lengths of the black run at the start pixel (0 when
\* it is white), of the white run after it and of the black run after that.
C10_Walk ==
    verify.pc \in {"loop", "ret"} =>
        LET d == Rays[verify.ray]
            ray == RayPixels(verify.image, verify.loc[1], verify.loc[2], d[1], d[2])
            b1 == RunFwd(ray, 1, FALSE)
            w == RunFwd(ray, b1 + 1, TRUE)
            b2 == RunFwd(ray, b1 + w + 1, FALSE)
            stop == IF b2 > 0 /\ b1 + w + b2 < Len(ray) THEN b1 + w + b2 ELSE Len(ray)
        IN  /\ verify.steps <= stop
            /\ verify.i = verify.loc[1] + verify.steps * d[2]
            /\ verify.j = verify.loc[2] + verify.steps * d[1]
            /\ Len(verify.hist) = verify.steps
            /\ NonDecreasing(verify.hist \o <<verify.prev>>)
            /\ verify.prev \in 0..2
            /\ ENABLED NextVD
            /\ verify.pc = "ret" =>
                  /\ verify.steps = stop
                  /\ verify.counter1 = b1
                  /\ verify.counter2 = w
                  /\ verify.counter3 = b2
                  /\ stop < Len(ray) => (ray[stop + 1] /\ verify.prev = 2)

\* the downward walk over black, white, black, white has returned at the
\* second white pixel with counters 1, 1, 1
C10_Witness ==
    /\ verify.pc = "ret" /\ verify.ray = 2
    /\ NumRows(verify.image) = 4 /\ verify.loc = <<0, 0>>
    /\ ~verify.image[1][1] /\ verify.image[2][1]
    /\ ~verify.image[3][1] /\ verify.image[4][1]
    /\ verify.steps = 3 /\ verify.counter1 = 1 /\ verify.counter2 = 1
    /\ verify.counter3 = 1


(***************************************************************************)
(* neighborSuppression(centers, thresh)                 qr.py:190-210      *)
(* A point is <<row, col>>.  thresh is a multiple of 1/5 (the caller       *)
(* passes rows/5, line 47); the frame holds tnum = 5*thresh.               *)
(* pc: "outer" is the head of the while loop, "inner" the head of          *)
(* `for j`, "remove" the head of the deletion loop.  i, j and the entries  *)
(* of removal_list are the code's indices, from 0.  `input` is a history   *)
(* variable: the list as it was passed.                                    *)
(***************************************************************************)
WithinOrAt(p, q, tnum) ==
    5 * ((p[1] - q[1]) ^ 2 + (p[2] - q[2]) ^ 2) <= tnum

WithinRawColumn(p, q, tnum) ==
    5 * ((p[1] - q[1]) ^ 2 + (p[2] - q[2])) < tnum

\* line 200: (c1[0] - c2[0])**2 + (c1[1]-c2[1]) ** 2 < thresh
Within(p, q, tnum) ==
    5 * ((p[1] - q[1]) ^ 2 + (p[2] - q[2]) ^ 2) < tnum

Reverse(s) == [n \in 1..Len(s) |-> s[Len(s) + 1 - n]]

\* del centers[j], j counted from 0
DeleteAt(s, j) == SubSeq(s, 1, j) \o SubSeq(s, j + 2, Len(s))

\* lines 193-196
SuppOuter(f) ==
    IF f.i < Len(f.centers)
    THEN [f EXCEPT !.pc = "inner", !.c1 = f.centers[f.i + 1],
                   !.removal_list = <<>>, !.j = f.i + 1]
    ELSE [f EXCEPT !.pc = "done"]

\* lines 198-204
SuppInner(f) ==
    IF f.j < Len(f.centers)
    THEN [f EXCEPT !.removal_list =
                       IF Within(f.c1, f.centers[f.j + 1], f.tnum)
                       THEN Append(f.removal_list, f.j)
                       ELSE f.removal_list,
                   !.j = f.j + 1]
    ELSE [f EXCEPT !.pc = "remove", !.removal_list = Reverse(f.removal_list)]

\* lines 205-208
SuppRemove(f) ==
    IF f.removal_list # <<>>
    THEN [f EXCEPT !.centers = DeleteAt(f.centers, Head(f.removal_list)),
                   !.removal_list = Tail(f.removal_list)]
    ELSE [f EXCEPT !.pc = "outer", !.i = f.i + 1]

SuppFrame(centers, tnum) ==
    [pc |-> "outer", input |-> centers, centers |-> centers, tnum |-> tnum,
     i |-> 0, j |-> 0, c1 |-> <<0, 0>>, removal_list |-> <<>>]

SuppNext(f) ==
    CASE f.pc = "outer" -> SuppOuter(f)
      [] f.pc = "inner" -> SuppInner(f)
      [] f.pc = "remove" -> SuppRemove(f)

RECURSIVE RunSupp(_)
RunSupp(f) == IF f.pc = "done" THEN f ELSE RunSupp(SuppNext(f))

neighborSuppression(centers, tnum) == RunSupp(SuppFrame(centers, tnum)).centers

Points == (0..MaxCoord) \X (0..MaxCoord)

SeqsUpTo(S, n) == UNION {[1..m -> S] : m \in 0..n}

InitNS ==
    /\ \E centers \in SeqsUpTo(Points, MaxCenters), tnum \in 1..MaxThreshNum :
           supp = SuppFrame(centers, tnum)
    /\ ratio = Idle /\ scan = Idle /\ verify = Idle
    /\ align = Idle /\ corner = Idle /\ dec = Idle

NSOuter ==
    /\ supp.pc = "outer"
    /\ supp' = SuppOuter(supp)
    /\ UNCHANGED <<ratio, scan, verify, align, corner, dec>>

NSInner ==
    /\ supp.pc = "inner"
    /\ supp' = SuppInner(supp)
    /\ UNCHANGED <<ratio, scan, verify, align, corner, dec>>

NSRemove ==
    /\ supp.pc = "remove"
    /\ supp' = SuppRemove(supp)
    /\ UNCHANGED <<ratio, scan, verify, align, corner, dec>>

NextNS ==
    \/ NSOuter
    \/ NSInner
    \/ NSRemove

SpecNS == InitNS /\ [][NextNS]_vars

\* 5 times the squared distance of two points
SqDist5(p, q) ==
    5 * ((p[1] - q[1]) * (p[1] - q[1]) + (p[2] - q[2]) * (p[2] - q[2]))

\* C2: a list of N >= 1 points that are pairwise within the threshold comes
\* back as its first point alone; a list of points that are pairwise at or
\* beyond the threshold comes back unchanged.
C2_Suppression ==
    supp.pc = "done" =>
        LET in == supp.input
            pairs == {ab \in (1..Len(in)) \X (1..Len(in)) : ab[1] < ab[2]}
        IN  /\ (Len(in) >= 1 /\ \A ab \in pairs :
                   SqDist5(in[ab[1]], in[ab[2]]) < supp.tnum)
                  => supp.centers = <<in[1]>>
            /\ (\A ab \in pairs : SqDist5(in[ab[1]], in[ab[2]]) >= supp.tnum)
                  => supp.centers = in

\* three different points, pairwise within the threshold, reduced to the first
C2_Witness ==
    /\ supp.pc = "done" /\ Len(supp.input) = 3
    /\ supp.input[1] # supp.input[2] /\ supp.input[2] # supp.input[3]
    /\ supp.input[1] # supp.input[3]
    /\ \A a \in 1..3, b \in 1..3 : SqDist5(supp.input[a], supp.input[b]) < supp.tnum
    /\ supp.centers = <<supp.input[1]>>

\* The indices of `in` that survive a forward scan in which a point goes
\* when an earlier survivor p has Near(p, it); Near is given as the set of
\* the pairs of indices <<earlier, later>> it relates.
Survivors(in, near) ==
    LET f[k \in 0..Len(in)] ==
            IF k = 0 THEN {}
            ELSE IF \E m \in f[k - 1] : <<m, k>> \in near
                 THEN f[k - 1]
                 ELSE f[k - 1] \cup {k}
    IN  f[Len(in)]

RECURSIVE Pick(_, _, _)
Pick(in, keep, k) ==
    IF k > Len(in) THEN <<>>
    ELSE (IF k \in keep THEN <<in[k]>> ELSE <<>>) \o Pick(in, keep, k + 1)

IndexPairs(in) == (1..Len(in)) \X (1..Len(in))

\* C8 as stated: a later point q goes exactly when, for an earlier surviving
\* point p, (p.row - q.row)^2 + (p.col - q.col) < thresh, the column
\* difference taken raw.
C8_RawColumn ==
    supp.pc = "done" =>
        LET in == supp.input
            near == {pq \in IndexPairs(in) :
                        5 * ((in[pq[1]][1] - in[pq[2]][1]) * (in[pq[1]][1] - in[pq[2]][1])
                             + (in[pq[1]][2] - in[pq[2]][2])) < supp.tnum}
        IN  supp.centers = Pick(in, Survivors(in, near), 1)

\* C8 amended: a later point q goes exactly when, for an earlier surviving
\* point p, (p.row - q.row)^2 + (p.col - q.col)^2 < thresh, both differences
\* squared; the list returned is the input without those points, in order.
C8_SquaredBoth ==
    supp.pc = "done" =>
        LET in == supp.input
            near == {pq \in IndexPairs(in) : SqDist5(in[pq[1]], in[pq[2]]) < supp.tnum}
        IN  supp.centers = Pick(in, Survivors(in, near), 1)

\* the second point went because of the first, and the third stayed although
\* it is within the threshold of the second
C8_Witness ==
    /\ supp.pc = "done" /\ Len(supp.input) = 3
    /\ SqDist5(supp.input[1], supp.input[2]) < supp.tnum
    /\ SqDist5(supp.input[1], supp.input[3]) >= supp.tnum
    /\ SqDist5(supp.input[2], supp.input[3]) < supp.tnum
    /\ supp.centers = <<supp.input[1], supp.input[3]>>

(***************************************************************************)
(* getAlignmentPoint(image, centers)                    qr.py:212-224      *)
(* centers[0], [1], [2] are read; a shorter list raises IndexError.        *)
(* `image` is a parameter the body never reads.                            *)
(***************************************************************************)
getAlignmentPointSwapped(image, centers) ==
    LET top_left == centers[1]
        top_right == centers[2]
        bottom_left == centers[3]
        v1 == <<top_right[1] - top_left[1], top_right[2] - top_left[2]>>
        v2 == <<bottom_left[1] - top_left[1], bottom_left[2] - top_left[2]>>
        x == top_left[2] + v1[2] + v2[2]
        y == top_left[1] + v1[1] + v2[1]
    IN  <<x, y>>

getAlignmentPoint(image, centers) ==
    LET top_left == centers[1]
        top_right == centers[2]
        bottom_left == centers[3]
        v1 == <<top_right[1] - top_left[1], top_right[2] - top_left[2]>>
        v2 == <<bottom_left[1] - top_left[1], bottom_left[2] - top_left[2]>>
        x == top_left[2] + v1[2] + v2[2]
        y == top_left[1] + v1[1] + v2[1]
    IN  <<y, x>>

AlignReturn(f) ==
    IF Len(f.centers) < 3
    THEN [f EXCEPT !.pc = "done", !.raised = "IndexError"]
    ELSE [f EXCEPT !.pc = "done", !.ret = getAlignmentPoint(f.image, f.centers)]

\* the points of the small grid, and two far ones
AlignPoints == Points \cup {<<0, 10>>, <<10, 0>>}

InitAP ==
    /\ \E image \in Images(1), centers \in SeqsUpTo(AlignPoints, MaxAlignLen) :
           align = [pc |-> "call", image |-> image, input |-> centers,
                    centers |-> centers, ret |-> <<>>, raised |-> "nothing"]
    /\ ratio = Idle /\ scan = Idle /\ verify = Idle
    /\ supp = Idle /\ corner = Idle /\ dec = Idle

CallGetAlignmentPoint ==
    /\ align.pc = "call"
    /\ align' = AlignReturn(align)
    /\ UNCHANGED <<ratio, scan, verify, supp, corner, dec>>

NextAP == CallGetAlignmentPoint

SpecAP == InitAP /\ [][NextAP]_vars

\* C5: for a list of at least three points the result is
\* top_right + bottom_left - top_left, row by row and column by column, of
\* its first three entries (so neither the image nor any further entry
\* matters), and the list is as it was.
C5_Parallelogram ==
    (align.pc = "done" /\ Len(align.input) >= 3) =>
        /\ align.raised = "nothing"
        /\ align.ret = <<align.input[2][1] + align.input[3][1] - align.input[1][1],
                         align.input[2][2] + align.input[3][2] - align.input[1][2]>>
        /\ align.centers = align.input

\* top_left = (0,0), top_right = (0,10), bottom_left = (10,0) and a fourth
\* entry: the result is (10,10)
C5_Witness ==
    /\ align.pc = "done" /\ Len(align.input) = 4
    /\ align.input[1] = <<0, 0>> /\ align.input[2] = <<0, 10>>
    /\ align.input[3] = <<10, 0>> /\ align.ret = <<10, 10>>

(***************************************************************************)
(* getCornerPoints(img)                                 qr.py:25-54        *)
(* img is a 2-D grid of pixel values (the img.ndim == 3 branch of line 31  *)
(* only selects the first channel of a 3-D one).  pc names the statement   *)
(* about to run.  `k` is the position of `for c in candidates`; `kept` is  *)
(* a history variable, the list neighborSuppression returned.              *)
(***************************************************************************)
PixelValues == {0, 1, 255}

RawImages(n) == UNION {[1..s[1] -> [1..s[2] -> PixelValues]] : s \in Shapes(n)}

AMax(img) ==
    CHOOSE v \in PixelValues :
        /\ \E r \in 1..Len(img), c \in 1..Len(img[1]) : img[r][c] = v
        /\ \A r \in 1..Len(img), c \in 1..Len(img[1]) : img[r][c] <= v

\* lines 28-35: img/255.0 when the maximum exceeds 1, then img > 0.5
Binarize(img) ==
    [r \in 1..Len(img) |->
        [c \in 1..Len(img[1]) |->
            IF AMax(img) > 1 THEN 2 * img[r][c] > 255 ELSE 2 * img[r][c] > 1]]

Point(x, y) == [x |-> x, y |-> y]

CornerFrame(img) ==
    [pc |-> "format", img |-> img, bin |-> <<>>, candidates |-> <<>>, k |-> 1,
     centers |-> <<>>, kept |-> <<>>, pt |-> <<>>, ret |-> <<>>,
     raised |-> "nothing"]

InitCP ==
    /\ \E img \in RawImages(MaxImagePixels) : corner = CornerFrame(img)
    /\ ratio = Idle /\ scan = Idle /\ verify = Idle
    /\ supp = Idle /\ align = Idle /\ dec = Idle

\* lines 28-37
CPFormat ==
    /\ corner.pc = "format"
    /\ corner' = [corner EXCEPT !.pc = "scan", !.bin = Binarize(corner.img)]
    /\ UNCHANGED <<ratio, scan, verify, supp, align, dec>>

\* lines 39-41
CPGetCandidates ==
    /\ corner.pc = "scan"
    /\ corner' = [corner EXCEPT !.pc = "verify", !.k = 1, !.centers = <<>>,
                                !.candidates = getCandidates(corner.bin)]
    /\ UNCHANGED <<ratio, scan, verify, supp, align, dec>>

\* lines 43-45, one candidate
CPVerify ==
    /\ corner.pc = "verify" /\ corner.k <= Len(corner.candidates)
    /\ corner' = [corner EXCEPT
                    !.k = corner.k + 1,
                    !.centers = IF verifyCenter(corner.bin, corner.candidates[corner.k])
                                THEN Append(corner.centers, corner.candidates[corner.k])
                                ELSE corner.centers]
    /\ UNCHANGED <<ratio, scan, verify, supp, align, dec>>

\* line 47: thresh = rows/5, so 5*thresh = rows
CPSuppress ==
    /\ corner.pc = "verify" /\ corner.k > Len(corner.candidates)
    /\ LET c == neighborSuppression(corner.centers, NumRows(corner.bin))
       IN  corner' = [corner EXCEPT !.pc = "align", !.centers = c, !.kept = c]
    /\ UNCHANGED <<ratio, scan, verify, supp, align, dec>>

\* line 49
CPAlign ==
    /\ corner.pc = "align"
    /\ corner' = IF Len(corner.centers) < 3
                 THEN [corner EXCEPT !.pc = "done", !.raised = "IndexError"]
                 ELSE [corner EXCEPT !.pc = "assemble",
                                     !.pt = getAlignmentPoint(corner.bin, corner.centers)]
    /\ UNCHANGED <<ratio, scan, verify, supp, align, dec>>

\* lines 51-54
CPAssemble ==
    /\ corner.pc = "assemble"
    /\ LET c == Append(corner.centers, corner.pt)
       IN  corner' = [corner EXCEPT
                        !.pc = "done", !.centers = c,
                        !.ret = [n \in 1..Len(c) |-> Point(c[n][2], c[n][1])]]
    /\ UNCHANGED <<ratio, scan, verify, supp, align, dec>>

NextCP ==
    \/ CPFormat
    \/ CPGetCandidates
    \/ CPVerify
    \/ CPSuppress
    \/ CPAlign
    \/ CPAssemble

SpecCP == InitCP /\ [][NextCP]_vars

\* C1: whenever getCornerPoints returns, the result has exactly four points:
\* the centers that survived neighborSuppression, in order, then the
\* alignment point, each as (x = col, y = row).
C1_FourPoints ==
    (corner.pc = "done" /\ corner.raised = "nothing") =>
        LET c == corner.kept \o <<corner.pt>>
        IN  /\ Len(corner.ret) = 4
            /\ corner.ret = [n \in 1..Len(c) |-> [x |-> c[n][2], y |-> c[n][1]]]


=============================================================================
